---- MODULE Spec2Model ----
(***************************************************************************)
(* Pixter: two-player picture guessing game.                               *)
(*                                                                         *)
(* The module models the target-score App component (src/src/App.tsx):    *)
(* its React state, its event handlers, the awaited gateway calls of      *)
(* src/unnamed/part_002 (api.ts) and the render gating that decides which *)
(* handler a user can reach.                                              *)
(*                                                                         *)
(* Two specifications are given.                                          *)
(*   Spec      the App as a user can drive it: a handler runs only when   *)
(*             the control bound to it is rendered and enabled.           *)
(*   SpecCore  Spec plus up to MaxDirect invocations of a handler in a    *)
(*             state where its control is not rendered: the handlers      *)
(*             taken as the operations of the round/match controller.     *)
(***************************************************************************)
EXTENDS Integers, Sequences, FiniteSets, TLC

VARIABLES
    scores,       \* useState scores: [1..2 -> Int]
    current,      \* useState current: RoundData
    started,      \* useState started
    loading,      \* useState loading: NULL or the busy label
    error,        \* useState error: NULL or a message
    gameOver,     \* useState gameOver
    roundOver,    \* useState roundOver
    roundReason,  \* useState roundReason: NULL, "max_attempts", "give_up", "correct"
    roundPoints,  \* useState roundPoints: NoPoints or {<<player, points>>}
    targetScore,  \* useState targetScore
    calls,        \* gateway calls awaited by a handler, in order of issue
    lastOp,       \* the last handler or continuation that ran, and how it ended
    direct,       \* number of handler invocations made past the render gating
    MOCK,         \* server: const MOCK (no API key, or MOCK_OPENAI=1)
    judgeReq,     \* server: body of the POST /api/judge being handled
    judgeRes,     \* server: the response sent for judgeReq
    env,          \* server: process.env (MOCK_OPENAI, OPENAI_API_KEY)
    secretFile,   \* server: what secretkey.txt is on disk
    phase,        \* server: how far the start of the process has come
    OpenAI,       \* server: let OpenAI (TRUE when the SDK was loaded)
    served,       \* server: the request handled last, and how
    pScores,      \* penalty App: useState scores
    pCurrent,     \* penalty App: useState current
    pLoading,     \* penalty App: useState loading
    pError,       \* penalty App: useState error
    pGameOver,    \* penalty App: useState gameOver
    pCalls,       \* penalty App: gateway calls awaited by a handler
    pLastOp,      \* penalty App: the last handler or continuation that ran
    pJudged,      \* penalty App: verdicts applied since the game was reset
    paused,       \* history App: useState paused
    history       \* history App: useState history, the finished rounds

vars == <<scores, current, started, loading, error, gameOver, roundOver,
          roundReason, roundPoints, targetScore, calls, lastOp, direct,
          MOCK, judgeReq, judgeRes, env, secretFile, phase, OpenAI, served,
          pScores, pCurrent, pLoading, pError, pGameOver, pCalls, pLastOp,
          pJudged, paused, history>>

\* state of the API server (src/unnamed/part_001)
serverVars == <<MOCK, judgeReq, judgeRes, env, secretFile, phase, OpenAI, served>>

\* the server's process: its environment and what it loaded at its start
bootVars == <<env, secretFile, phase, OpenAI, served>>

\* state of the penalty App (src/unnamed/part_004)
penaltyVars == <<pScores, pCurrent, pLoading, pError, pGameOver, pCalls, pLastOp,
                 pJudged>>

\* state the history App adds to that of App (src/unnamed/part_003)
historyVars == <<paused, history>>

\* state outside the target-score App
restVars == <<serverVars, penaltyVars, historyVars>>

appVars == <<scores, current, started, loading, error, gameOver, roundOver,
             roundReason, roundPoints, targetScore, calls>>

----------------------------------------------------------------------------
(* Bounds of the model *)

\* largest target score chosen on the start screen
MaxTarget == 2

\* handler invocations past the render gating (SpecCore)
MaxDirect == 1

----------------------------------------------------------------------------
(* Program constants *)

MaxAttempts == 3

POINTS_PER_CORRECT == 1

TargetScoreMin == 1

TargetScoreMax == 100

NULL == "null"

GeneratingLabel == "Generating image..."

JudgingLabel == "Judging guess..."

FailedToGenerate == "Failed to generate image"

FailedToJudge == "Failed to judge"

Players == {1, 2}

----------------------------------------------------------------------------
(* Texts: a text is a sequence of characters *)

IsSpace(c) == c = " "

ToLowerChar(c) == IF c = "A" THEN "a" ELSE IF c = "B" THEN "b" ELSE c

\* String.prototype.toLowerCase
toLowerCase(s) == [i \in 1..Len(s) |-> ToLowerChar(s[i])]

RECURSIVE trimStart(_)
trimStart(s) ==
    IF s # <<>> /\ IsSpace(Head(s)) THEN trimStart(Tail(s)) ELSE s

RECURSIVE trimEnd(_)
trimEnd(s) ==
    IF s # <<>> /\ IsSpace(s[Len(s)]) THEN trimEnd(SubSeq(s, 1, Len(s) - 1)) ELSE s

\* String.prototype.trim
trim(s) == trimEnd(trimStart(s))

\* s.replace(/\s+/g, ' '): every maximal run of whitespace becomes one space
RECURSIVE collapseSpaces(_)
collapseSpaces(s) ==
    IF s = <<>> THEN <<>>
    ELSE IF IsSpace(Head(s))
         THEN <<" ">> \o collapseSpaces(trimStart(s))
         ELSE <<Head(s)>> \o collapseSpaces(Tail(s))

normalizeText(s) == toLowerCase(collapseSpaces(trim(s)))

\* texts a player may type
TextAB == <<"a", " ", "b">>

TextABLoud == <<"A", " ", " ", "b">>

TextB == <<"b">>

TextBPadded == <<" ", "b">>

TextBlank == <<" ">>

TextEmpty == <<>>

TypedDescriptions == {TextAB, TextBPadded, TextBlank, TextEmpty}

TypedGuesses == {TextAB, TextABLoud, TextB, TextEmpty}

\* image references the generation gateway may return
ImageRefs == {"img1", "img2"}

----------------------------------------------------------------------------
(* API server (src/unnamed/part_001): the heuristic of POST /api/judge *)

\* the characters the class [a-z0-9] matches
LowerAlnum ==
    {"a", "b", "c", "d", "e", "f", "g", "h", "i", "j", "k", "l", "m",
     "n", "o", "p", "q", "r", "s", "t", "u", "v", "w", "x", "y", "z",
     "0", "1", "2", "3", "4", "5", "6", "7", "8", "9"}

\* the match of /[^a-z0-9]+/ at the head of s is skipped
RECURSIVE skipSeparators(_)
skipSeparators(s) ==
    IF s # <<>> /\ Head(s) \notin LowerAlnum THEN skipSeparators(Tail(s)) ELSE s

\* s.split(/[^a-z0-9]+/), piece being the piece collected so far: a
\* separator at either end of s yields an empty piece there
RECURSIVE splitFrom(_, _)
splitFrom(s, piece) ==
    IF s = <<>> THEN <<piece>>
    ELSE IF Head(s) \notin LowerAlnum
         THEN <<piece>> \o splitFrom(skipSeparators(s), <<>>)
         ELSE splitFrom(Tail(s), Append(piece, Head(s)))

split(s) == splitFrom(s, <<>>)

\* .filter(Boolean): the empty string is falsy
filterBoolean(pieces) == SelectSeq(pieces, LAMBDA w : w # <<>>)

\* new Set(String(t).toLowerCase().split(/[^a-z0-9]+/).filter(Boolean))
tokenSet(t) ==
    LET words == filterBoolean(split(toLowerCase(t)))
    IN  {words[i] : i \in 1..Len(words)}

computeCloseness_SumOfSizes(aText, bText) ==
    LET a == tokenSet(aText)
        b == tokenSet(bText)
        inter == Cardinality({w \in b : w \in a})
        size == Cardinality(a) + Cardinality(b)
        union == IF size = 0 THEN 1 ELSE size
    IN  [closeness |-> <<inter, union>>, overlap |-> inter]

\* closeness is the quotient inter / union, kept as <<inter, union>>
computeCloseness(aText, bText) ==
    LET a == tokenSet(aText)
        b == tokenSet(bText)
        inter == Cardinality({w \in b : w \in a})
        size == Cardinality(a \cup b)
        union == IF size = 0 THEN 1 ELSE size
    IN  [closeness |-> <<inter, union>>, overlap |-> inter]

heuristicCorrect_TwoWords(originalDescription, guess, overlap) ==
    \/ overlap >= 2
    \/ toLowerCase(trim(guess)) = toLowerCase(trim(originalDescription))

heuristicCorrect_OverlapOnly(originalDescription, guess, overlap) ==
    overlap >= 3

\* overlap >= 3 || guess.trim().toLowerCase() ===
\*                 originalDescription.trim().toLowerCase()
heuristicCorrect(originalDescription, guess, overlap) ==
    \/ overlap >= 3
    \/ toLowerCase(trim(guess)) = toLowerCase(trim(originalDescription))

\* ok(res, data): res.json({ ok: true, data })
sendOk(data) == [ok |-> TRUE, status |-> 200, data |-> data]

\* err(res, message, status): res.status(status).json({ ok: false, error })
sendErr(message, status) == [ok |-> FALSE, status |-> status, error |-> message]

\* what the call of the chat model can come to when MOCK is off: the SDK
\* failed to load, the model answered correct or not, or the call threw
ModelOutcomes == {"no_sdk", "correct", "incorrect", "throws"}

\* the handler of POST /api/judge for the body req
judge(req, mock, outcome) ==
    IF req.originalDescription = TextEmpty \/ req.guess = TextEmpty
    THEN sendErr("Missing fields", 400)
    ELSE LET c == computeCloseness(req.originalDescription, req.guess)
             heuristic == heuristicCorrect(req.originalDescription,
                                           req.guess, c.overlap)
         IN  IF mock \/ outcome = "no_sdk"
             THEN sendOk([correct |-> heuristic,
                      rationale |-> <<"overlap_words", c.overlap>>,
                      closeness |-> c.closeness])
             ELSE IF outcome = "throws"
             THEN sendOk([correct |-> heuristic,
                      rationale |-> <<"fallback_overlap_words", c.overlap>>,
                      closeness |-> c.closeness])
             ELSE sendOk([correct |-> (outcome = "correct"),
                      rationale |-> <<"model", c.overlap>>,
                      closeness |-> c.closeness])

\* no request is being handled
\* process.env.MOCK_OPENAI === '1' || !process.env.OPENAI_API_KEY
mockOf(e) == e.MOCK_OPENAI = "1" \/ e.OPENAI_API_KEY \in {NULL, ""}

\* a listening server whose MOCK is mock: no key in the environment when
\* mock, a key and no MOCK_OPENAI otherwise
Listening(mock) ==
    /\ env = [MOCK_OPENAI |-> NULL,
              OPENAI_API_KEY |-> IF mock THEN NULL ELSE "sk-env"]
    /\ secretFile = "absent"
    /\ phase = "listening"
    /\ OpenAI = ~mock
    /\ served = <<>>

ServerIdle == MOCK = TRUE /\ judgeReq = <<>> /\ judgeRes = <<>> /\ Listening(TRUE)

----------------------------------------------------------------------------
(* Derived values of a render *)

Other(p) == 3 - p

\* players.find(p => p.id === current.describerId)
describer(c) == c.describerId

guesser_Same(c) == c.describerId

\* players.find(p => p.id !== current.describerId)
guesser(c) == Other(c.describerId)

HasImage(c) == c.imageUrl # NULL

\* { describerId: start, description: '' }: no image and no attempts yet.
\* The fields guess, correct and rationale of RoundData repeat the last
\* attempt and are read nowhere; the model keeps attempts only.
FreshRound(start) ==
    [describerId |-> start, description |-> TextEmpty, imageUrl |-> NULL,
     attempts |-> <<>>]

\* roundPoints: null is the empty set, { [id]: n } is {<<id, n>>}
NoPoints == {}

ZeroScores == [p \in Players |-> 0]

canWin(s, target) == s[1] >= target \/ s[2] >= target

\* the values the handlers of one render close over
Render ==
    [current |-> current, scores |-> scores, targetScore |-> targetScore,
     roundOver |-> roundOver, roundReason |-> roundReason,
     roundPoints |-> roundPoints]

\* useEffect on [targetScore, gameOver, scores]: the win condition re-evaluated
\* (it runs after every commit that changes one of them)
WinEffect_Early(go, s, target) ==
    IF ~go /\ (s[1] >= target - 1 \/ s[2] >= target - 1) THEN TRUE ELSE go

WinEffect(go, s, target) ==
    IF ~go /\ (s[1] >= target \/ s[2] >= target) THEN TRUE ELSE go

Op(name, arg, res) == [op |-> name, arg |-> arg, res |-> res]

RemoveAt(q, i) == SubSeq(q, 1, i - 1) \o SubSeq(q, i + 1, Len(q))

----------------------------------------------------------------------------
(* Initial state: the useState initialisers *)

\* the history App's own state before anything happened
HistoryIdle == paused = FALSE /\ history = <<>>

\* the penalty App before anything happened
PenaltyIdle ==
    /\ pScores = ZeroScores
    /\ pCurrent = FreshRound(1)
    /\ pLoading = NULL
    /\ pError = NULL
    /\ pGameOver = FALSE
    /\ pCalls = <<>>
    /\ pLastOp = [op |-> "init", guesser |-> 1, res |-> "done"]
    /\ pJudged = 0

Init ==
    /\ scores = ZeroScores
    /\ \E start \in Players : current = FreshRound(start)
    /\ started = FALSE
    /\ loading = NULL
    /\ error = NULL
    /\ gameOver = FALSE
    /\ roundOver = FALSE
    /\ roundReason = NULL
    /\ roundPoints = NoPoints
    /\ targetScore \in TargetScoreMin..MaxTarget
    /\ calls = <<>>
    /\ lastOp = Op("init", TextEmpty, "done")
    /\ direct = 0
    /\ ServerIdle
    /\ PenaltyIdle
    /\ HistoryIdle

----------------------------------------------------------------------------
(* Handlers of App.  A handler leaves `direct` to the action that uses it. *)

\* a handler that returned before any setState
Refused(name, arg, why) ==
    /\ lastOp' = Op(name, arg, why)
    /\ UNCHANGED appVars

Busy_Never == FALSE

\* if (loading) return
Busy == loading # NULL

handleDescribe(description) ==
    IF Busy
    THEN Refused("handleDescribe", description, "busy")
    ELSE /\ error' = NULL
         /\ loading' = GeneratingLabel
         /\ calls' = Append(calls, [kind |-> "generate", arg |-> description,
                                    render |-> Render])
         /\ lastOp' = Op("handleDescribe", description, "issued")
         /\ UNCHANGED <<scores, current, started, gameOver, roundOver,
                        roundReason, roundPoints, targetScore>>

\* current.attempts?.[current.attempts.length - 1]?.guess, TextEmpty if absent
lastGuessOf(c) ==
    IF c.attempts = <<>> THEN TextEmpty ELSE c.attempts[Len(c.attempts)].guess

isDuplicateGuess_AnyAttempt(c, guess) ==
    \E k \in 1..Len(c.attempts) :
        normalizeText(c.attempts[k].guess) = normalizeText(guess)

isDuplicateGuess_Exact(c, guess) ==
    /\ lastGuessOf(c) # TextEmpty
    /\ lastGuessOf(c) = guess

\* lastGuess && normalizeText(lastGuess) === normalizeText(guess)
isDuplicateGuess(c, guess) ==
    /\ lastGuessOf(c) # TextEmpty
    /\ normalizeText(lastGuessOf(c)) = normalizeText(guess)

\* the conditions under which handleGuess goes on to call the judge
GuessAccepted(guess) ==
    /\ HasImage(current)
    /\ ~Busy
    /\ ~isDuplicateGuess(current, guess)

handleGuess(guess) ==
    IF ~HasImage(current)
    THEN Refused("handleGuess", guess, "noImage")
    ELSE IF Busy
    THEN Refused("handleGuess", guess, "busy")
    ELSE IF isDuplicateGuess(current, guess)
    THEN Refused("handleGuess", guess, "duplicate")
    ELSE /\ error' = NULL
         /\ loading' = JudgingLabel
         /\ calls' = Append(calls, [kind |-> "judge", arg |-> guess,
                                    render |-> Render])
         /\ lastOp' = Op("handleGuess", guess, "issued")
         /\ UNCHANGED <<scores, current, started, gameOver, roundOver,
                        roundReason, roundPoints, targetScore>>

handleGiveUp(ok) ==
    IF ~HasImage(current)
    THEN Refused("handleGiveUp", TextEmpty, "noImage")
    ELSE IF Busy
    THEN Refused("handleGiveUp", TextEmpty, "busy")
    ELSE IF ~ok
    THEN Refused("handleGiveUp", TextEmpty, "declined")
    ELSE /\ roundPoints' = NoPoints
         /\ roundOver' = TRUE
         /\ roundReason' = "give_up"
         /\ error' = NULL
         /\ lastOp' = Op("handleGiveUp", TextEmpty, "done")
         /\ UNCHANGED <<scores, current, started, loading, gameOver,
                        targetScore, calls>>

nextRound_KeepsAttempts ==
    /\ current' = [FreshRound(guesser(current)) EXCEPT
                       !.attempts = current.attempts]
    /\ roundOver' = FALSE
    /\ roundReason' = NULL
    /\ roundPoints' = NoPoints
    /\ lastOp' = Op("nextRound", TextEmpty, "done")
    /\ UNCHANGED <<scores, started, loading, error, gameOver, targetScore, calls>>

\* nextRound: a fresh round for the guesser, the round's outcome cleared
nextRound ==
    /\ current' = FreshRound(guesser(current))
    /\ roundOver' = FALSE
    /\ roundReason' = NULL
    /\ roundPoints' = NoPoints
    /\ lastOp' = Op("nextRound", TextEmpty, "done")
    /\ UNCHANGED <<scores, started, loading, error, gameOver, targetScore, calls>>

startGame_KeepsRoundState ==
    /\ scores' = ZeroScores
    /\ \E start \in Players : current' = FreshRound(start)
    /\ gameOver' = WinEffect(FALSE, ZeroScores, targetScore)
    /\ error' = NULL
    /\ started' = TRUE
    /\ lastOp' = Op("startGame", TextEmpty, "done")
    /\ UNCHANGED <<loading, roundOver, roundReason, roundPoints, targetScore,
                   calls>>

startGame ==
    /\ scores' = ZeroScores
    /\ \E start \in Players : current' = FreshRound(start)
    /\ roundOver' = FALSE
    /\ roundReason' = NULL
    /\ roundPoints' = NoPoints
    /\ gameOver' = WinEffect(FALSE, ZeroScores, targetScore)
    /\ error' = NULL
    /\ started' = TRUE
    /\ lastOp' = Op("startGame", TextEmpty, "done")
    /\ UNCHANGED <<loading, targetScore, calls>>

resetGame ==
    /\ scores' = ZeroScores
    /\ \E start \in Players : current' = FreshRound(start)
    /\ gameOver' = WinEffect(FALSE, ZeroScores, targetScore)
    /\ error' = NULL
    /\ started' = FALSE
    /\ lastOp' = Op("resetGame", TextEmpty, "done")
    /\ UNCHANGED <<loading, roundOver, roundReason, roundPoints, targetScore, calls>>

\* StartScreen: Math.max(1, Math.min(100, Math.floor(v || 0)))
clamped(v) ==
    IF v < TargetScoreMin THEN TargetScoreMin
    ELSE IF v > TargetScoreMax THEN TargetScoreMax ELSE v

setTargetScore(v) ==
    /\ targetScore' = clamped(v)
    /\ gameOver' = WinEffect(gameOver, scores, clamped(v))
    /\ lastOp' = Op("setTargetScore", TextEmpty, "done")
    /\ UNCHANGED <<scores, current, started, loading, error, roundOver,
                   roundReason, roundPoints, calls>>

----------------------------------------------------------------------------
(* Gateway calls: api.generateImage and api.judge through post *)

\* POST /api/generate-image answers 400 when the description is empty
GenerateValid(call) == call.arg # TextEmpty

\* POST /api/judge answers 400 when originalDescription or guess is empty
JudgeValid(call) ==
    /\ call.render.current.description # TextEmpty
    /\ call.arg # TextEmpty

generateResolved_DropsDescription(i, imageUrl) ==
    /\ i \in 1..Len(calls)
    /\ calls[i].kind = "generate"
    /\ GenerateValid(calls[i])
    /\ current' = [current EXCEPT !.imageUrl = imageUrl]
    /\ loading' = NULL
    /\ calls' = RemoveAt(calls, i)
    /\ lastOp' = Op("generateResolved", calls[i].arg, imageUrl)
    /\ UNCHANGED <<scores, started, error, gameOver, roundOver, roundReason,
                   roundPoints, targetScore>>

\* handleDescribe after the await: the call resolved with imageUrl
generateResolved(i, imageUrl) ==
    /\ i \in 1..Len(calls)
    /\ calls[i].kind = "generate"
    /\ GenerateValid(calls[i])
    /\ current' = [current EXCEPT !.description = calls[i].arg,
                                  !.imageUrl = imageUrl]
    /\ loading' = NULL
    /\ calls' = RemoveAt(calls, i)
    /\ lastOp' = Op("generateResolved", calls[i].arg, imageUrl)
    /\ UNCHANGED <<scores, started, error, gameOver, roundOver, roundReason,
                   roundPoints, targetScore>>

\* handleDescribe after the await: post threw (json.ok false, or the network)
generateRejected(i) ==
    /\ i \in 1..Len(calls)
    /\ calls[i].kind = "generate"
    /\ error' = FailedToGenerate
    /\ loading' = NULL
    /\ calls' = RemoveAt(calls, i)
    /\ lastOp' = Op("generateRejected", calls[i].arg, "failed")
    /\ UNCHANGED <<scores, current, started, gameOver, roundOver, roundReason,
                   roundPoints, targetScore>>

AwardPoint_Nothing(s, g) == s

AwardPoint_Double(s, g) == [s EXCEPT ![g] = @ + 2 * POINTS_PER_CORRECT]

AwardPoint_ToDescriber(s, g) == [s EXCEPT ![Other(g)] = @ + POINTS_PER_CORRECT]

\* the score update of a correct guess: { ...s, [guesser.id]: s[guesser.id] + 1 }
AwardPoint(s, g) == [s EXCEPT ![g] = @ + POINTS_PER_CORRECT]

AttemptsExhausted_OffByOne(n) == n > MaxAttempts

AttemptsExhausted_Early(n) == n >= MaxAttempts - 1

\* newAttemptsCount >= 3
AttemptsExhausted(n) == n >= MaxAttempts

\* handleGuess after the await: the call resolved with a verdict.  The
\* updater of setCurrent assigns newAttemptsCount when React runs it eagerly;
\* otherwise the count taken from the render's current stands.
judgeResolved(i, correct) ==
    /\ i \in 1..Len(calls)
    /\ calls[i].kind = "judge"
    /\ JudgeValid(calls[i])
    /\ LET call == calls[i]
           attempts == Append(current.attempts,
                              [guess |-> call.arg, correct |-> correct])
           g == guesser(call.render.current)
           next == AwardPoint(scores, g)
       IN  /\ current' = [current EXCEPT !.attempts = attempts]
           /\ IF correct
              THEN /\ scores' = next
                   /\ gameOver' = WinEffect(
                          IF canWin(next, call.render.targetScore)
                          THEN TRUE ELSE gameOver,
                          next, targetScore)
                   /\ roundPoints' = {<<g, POINTS_PER_CORRECT>>}
                   /\ roundOver' = TRUE
                   /\ roundReason' = "correct"
              ELSE \E newAttemptsCount \in
                        {Len(call.render.current.attempts) + 1, Len(attempts)} :
                      IF AttemptsExhausted(newAttemptsCount)
                      THEN /\ roundOver' = TRUE
                           /\ roundReason' = "max_attempts"
                           /\ roundPoints' = NoPoints
                           /\ UNCHANGED <<scores, gameOver>>
                      ELSE UNCHANGED <<scores, gameOver, roundOver,
                                       roundReason, roundPoints>>
           /\ lastOp' = Op("judgeResolved", call.arg,
                           IF correct THEN "correct" ELSE "incorrect")
    /\ loading' = NULL
    /\ calls' = RemoveAt(calls, i)
    /\ UNCHANGED <<started, error, targetScore>>

judgeRejected_RecordsAttempt(i) ==
    /\ i \in 1..Len(calls)
    /\ calls[i].kind = "judge"
    /\ current' = [current EXCEPT !.attempts =
                       Append(@, [guess |-> calls[i].arg, correct |-> FALSE])]
    /\ error' = FailedToJudge
    /\ loading' = NULL
    /\ calls' = RemoveAt(calls, i)
    /\ lastOp' = Op("judgeRejected", calls[i].arg, "failed")
    /\ UNCHANGED <<scores, started, gameOver, roundOver, roundReason,
                   roundPoints, targetScore>>

\* handleGuess after the await: post threw
judgeRejected(i) ==
    /\ i \in 1..Len(calls)
    /\ calls[i].kind = "judge"
    /\ error' = FailedToJudge
    /\ loading' = NULL
    /\ calls' = RemoveAt(calls, i)
    /\ lastOp' = Op("judgeRejected", calls[i].arg, "failed")
    /\ UNCHANGED <<scores, current, started, gameOver, roundOver, roundReason,
                   roundPoints, targetScore>>

----------------------------------------------------------------------------
(* Render gating: which screen App returns *)

ShowsStartScreen == ~started

ShowsGameOver == started /\ gameOver

ShowsDescribeForm == started /\ ~gameOver /\ ~HasImage(current)

ShowsRoundSummary_WhilePending == started /\ ~gameOver /\ HasImage(current)

ShowsRoundSummary_IgnoresGameOver == started /\ HasImage(current) /\ roundOver

ShowsRoundSummary == started /\ ~gameOver /\ HasImage(current) /\ roundOver

ShowsGuessForm == started /\ ~gameOver /\ HasImage(current) /\ ~roundOver

\* GuessForm: !busy && !!guess.trim() && !isDuplicate
canSubmit(text) ==
    /\ loading # JudgingLabel
    /\ trim(text) # TextEmpty
    /\ ~isDuplicateGuess(current, text)

----------------------------------------------------------------------------
(* Actions of the rendered App *)

ClickStart == ShowsStartScreen /\ startGame /\ UNCHANGED <<direct, restVars>>

ChangeTarget(v) == ShowsStartScreen /\ setTargetScore(v) /\ UNCHANGED <<direct, restVars>>

ClickPlayAgain == ShowsGameOver /\ resetGame /\ UNCHANGED <<direct, restVars>>

canGenerate_Always(text) == TRUE

\* DescribeForm: disabled={!text.trim()}
canGenerate(text) == trim(text) # TextEmpty

\* DescribeForm: the button is rendered unless busy; on blank text it is
\* disabled and a click runs no handler
ClickGenerate(text) ==
    /\ ShowsDescribeForm
    /\ loading # GeneratingLabel
    /\ IF canGenerate(text)
       THEN handleDescribe(trim(text))
       ELSE Refused("DescribeForm", text, "disabled")
    /\ UNCHANGED <<direct, restVars>>

ClickSubmitGuess(text) ==
    /\ ShowsGuessForm
    /\ canSubmit(text)
    /\ handleGuess(trim(text))
    /\ UNCHANGED <<direct, restVars>>

\* GuessForm: Give up is disabled while busy; window.confirm answers ok
ClickGiveUp(ok) ==
    /\ ShowsGuessForm
    /\ loading # JudgingLabel
    /\ handleGiveUp(ok)
    /\ UNCHANGED <<direct, restVars>>

ClickNextRound == ShowsRoundSummary /\ nextRound /\ UNCHANGED <<direct, restVars>>

GenerateOk == \E i \in 1..Len(calls), img \in ImageRefs :
    generateResolved(i, img) /\ UNCHANGED <<direct, restVars>>

GenerateFail == \E i \in 1..Len(calls) : generateRejected(i) /\ UNCHANGED <<direct, restVars>>

JudgeOk == \E i \in 1..Len(calls), correct \in BOOLEAN :
    judgeResolved(i, correct) /\ UNCHANGED <<direct, restVars>>

JudgeFail == \E i \in 1..Len(calls) : judgeRejected(i) /\ UNCHANGED <<direct, restVars>>

Next ==
    \/ ClickStart
    \/ \E v \in 0..MaxTarget : ChangeTarget(v)
    \/ ClickPlayAgain
    \/ \E text \in TypedDescriptions : ClickGenerate(text)
    \/ \E text \in TypedGuesses : ClickSubmitGuess(text)
    \/ \E ok \in BOOLEAN : ClickGiveUp(ok)
    \/ ClickNextRound
    \/ GenerateOk
    \/ GenerateFail
    \/ JudgeOk
    \/ JudgeFail

Spec == Init /\ [][Next]_vars

----------------------------------------------------------------------------
(* The handlers as operations: invoked whatever is rendered *)

Direct == direct < MaxDirect /\ direct' = direct + 1 /\ UNCHANGED restVars

CallDescribe(text) == Direct /\ handleDescribe(text)

CallGuess(text) == Direct /\ handleGuess(text)

CallGiveUp(ok) == Direct /\ handleGiveUp(ok)

CallNextRound == Direct /\ nextRound

CallStartGame == Direct /\ startGame

CallResetGame == Direct /\ resetGame

NextCore ==
    \/ Next
    \/ \E text \in TypedDescriptions : CallDescribe(text)
    \/ \E text \in TypedGuesses : CallGuess(text)
    \/ \E ok \in BOOLEAN : CallGiveUp(ok)
    \/ CallNextRound
    \/ CallStartGame
    \/ CallResetGame

SpecCore == Init /\ [][NextCore]_vars

----------------------------------------------------------------------------
(* The judge endpoint on its own: one request, drawn from JudgeTexts *)

\* longest text of the exhaustive part of JudgeTexts
MaxLen == 3

JudgeChars == {"a", "b", " ", "."}

TextsUpTo(n) == UNION {[1..k -> JudgeChars] : k \in 0..n}

TextALoud == <<"A">>

TextABC == <<"a", " ", "b", " ", "c">>

TextABCLoud == <<" ", "A", " ", "B", " ", "c", " ">>

TextCBAD == <<"c", ".", "B", ".", "a", ".", "d">>

\* every text up to MaxLen characters, and some longer ones that share
\* three words or differ in case
JudgeTexts ==
    TextsUpTo(MaxLen) \cup {TextALoud, TextABLoud, TextABC, TextABCLoud, TextCBAD}

\* the target-score App before anything happened
AppIdle ==
    /\ scores = ZeroScores
    /\ current = FreshRound(1)
    /\ started = FALSE
    /\ loading = NULL
    /\ error = NULL
    /\ gameOver = FALSE
    /\ roundOver = FALSE
    /\ roundReason = NULL
    /\ roundPoints = NoPoints
    /\ targetScore = TargetScoreMin
    /\ calls = <<>>
    /\ lastOp = Op("init", TextEmpty, "done")
    /\ direct = 0

InitJudge ==
    /\ AppIdle
    /\ PenaltyIdle
    /\ HistoryIdle
    /\ MOCK \in BOOLEAN
    /\ Listening(MOCK)
    /\ \E original \in JudgeTexts, guess \in JudgeTexts :
          judgeReq = <<[originalDescription |-> original, guess |-> guess]>>
    /\ judgeRes = <<>>

\* app.post('/api/judge', ...): the request is answered
PostJudge ==
    /\ judgeReq # <<>>
    /\ judgeRes = <<>>
    /\ \E outcome \in ModelOutcomes :
          judgeRes' = <<judge(Head(judgeReq), MOCK, outcome)>>
    /\ UNCHANGED <<MOCK, judgeReq, bootVars, appVars, lastOp, direct, penaltyVars,
                   historyVars>>

NextJudge == PostJudge

SpecJudge == InitJudge /\ [][NextJudge]_vars

----------------------------------------------------------------------------
(* The server process: src/server/start.js, then the API of part_001 *)

\* values MOCK_OPENAI may have when the process starts (NULL: not set)
MockSettings == {NULL, "", "0", "1"}

\* values OPENAI_API_KEY may have when the process starts (NULL: not set)
KeySettings == {NULL, "", "sk-env"}

\* secretkey.txt: not there, blank, holding a key, or failing to be read
SecretFiles == {"absent", "empty", "key", "unreadable"}

bootstrap_ForcesReal(e, file) ==
    IF file = "key"
    THEN [OPENAI_API_KEY |-> "sk-file", MOCK_OPENAI |-> "0"]
    ELSE e

\* start.js: the key of secretkey.txt goes to OPENAI_API_KEY, and
\* if (!process.env.MOCK_OPENAI) process.env.MOCK_OPENAI = '0'
bootstrap(e, file) ==
    IF file = "key"
    THEN [OPENAI_API_KEY |-> "sk-file",
          MOCK_OPENAI |-> IF e.MOCK_OPENAI \in {NULL, ""}
                          THEN "0" ELSE e.MOCK_OPENAI]
    ELSE e

\* what the image models can come to when MOCK is off: the SDK failed to
\* load, one of IMAGE_MODELS returned an image, or all of them failed
GenerateOutcomes == {"no_sdk", "gpt-image-1", "dall-e-3", "throws"}

\* the two UTF-16 code units of a character outside the basic plane
HighSurrogate == "<D83D>"

LowSurrogate == "<DE00>"

\* a surrogate code unit that is not half of a pair
LoneSurrogateAt(s, i) ==
    \/ s[i] = HighSurrogate /\ (i = Len(s) \/ s[i + 1] # LowSurrogate)
    \/ s[i] = LowSurrogate /\ (i = 1 \/ s[i - 1] # HighSurrogate)

\* what one code unit becomes in the encoded text
EncodedUnit(c) ==
    IF ToLowerChar(c) \in LowerAlnum \/ c = "." THEN c
    ELSE IF c = " " THEN "%20"
    ELSE IF c = ":" THEN "%3A"
    ELSE IF c = HighSurrogate THEN "%F0%9F"
    ELSE IF c = LowSurrogate THEN "%98%80"
    ELSE "%"

\* encodeURIComponent: the percent-encoded text; it throws URIError on a
\* text that holds a lone surrogate
encodeURIComponent(s) ==
    IF \E i \in 1..Len(s) : LoneSurrogateAt(s, i)
    THEN [thrown |-> TRUE, value |-> <<>>]
    ELSE [thrown |-> FALSE, value |-> [i \in 1..Len(s) |-> EncodedUnit(s[i])]]

\* description.slice(0, 40): the first 40 code units
PlaceholderTextLen == 40

slice(s, n) == SubSeq(s, 1, IF Len(s) < n THEN Len(s) ELSE n)

\* 'mock: '
MockPrefix == <<"m", "o", "c", "k", ":", " ">>

\* an exception left the handler: its promise is rejected and the handler
\* wrote no response (status 0 stands for none)
uncaught(name) == [ok |-> FALSE, status |-> 0, error |-> name]

\* the handler of POST /api/generate-image for the body req
generateImage(req, mock, outcome) ==
    IF req.description = TextEmpty
    THEN sendErr("Missing description", 400)
    ELSE LET text == encodeURIComponent(
                         slice(req.description, PlaceholderTextLen))
             fallbackText == encodeURIComponent(
                         MockPrefix \o slice(req.description, PlaceholderTextLen))
             fallback ==
                 IF fallbackText.thrown
                 THEN uncaught("URIError")
                 ELSE sendOk([imageUrl |-> <<"placeholder", fallbackText.value>>,
                              model |-> "mock-fallback"])
         IN  IF mock \/ outcome = "no_sdk"
             THEN IF text.thrown
                  THEN fallback
                  ELSE sendOk([imageUrl |-> <<"placeholder", text.value>>,
                               model |-> "mock"])
             ELSE IF outcome = "throws"
             THEN fallback
             ELSE sendOk([imageUrl |-> <<"image", req.description>>,
                          model |-> outcome])

\* 39 letters and then a character outside the basic plane: its first code
\* unit is the 40th of the text
TextEmojiAtCut ==
    [i \in 1..(PlaceholderTextLen + 1) |->
        IF i = PlaceholderTextLen THEN HighSurrogate
        ELSE IF i = PlaceholderTextLen + 1 THEN LowSurrogate ELSE "b"]

\* a character outside the basic plane inside the first 40 code units
TextEmoji == <<"b", HighSurrogate, LowSurrogate>>

ServerDescriptions == {TextB, TextEmoji, TextEmojiAtCut, TextEmpty}

ServerGuesses == {TextB, TextAB, TextEmpty}

\* MOCK is read by no one before index is loaded
InitServer ==
    /\ AppIdle
    /\ PenaltyIdle
    /\ HistoryIdle
    /\ MOCK = FALSE
    /\ judgeReq = <<>>
    /\ judgeRes = <<>>
    /\ env \in [MOCK_OPENAI : MockSettings, OPENAI_API_KEY : KeySettings]
    /\ secretFile \in SecretFiles
    /\ phase = "start"
    /\ OpenAI = FALSE
    /\ served = <<>>

\* node start.js, up to require('./index')
Bootstrap ==
    /\ phase = "start"
    /\ env' = bootstrap(env, secretFile)
    /\ phase' = "bootstrapped"
    /\ UNCHANGED <<MOCK, judgeReq, judgeRes, secretFile, OpenAI, served>>
    /\ UNCHANGED <<appVars, lastOp, direct, penaltyVars, historyVars>>

\* index is loaded, by start.js or on its own: MOCK is fixed, the SDK is
\* required when MOCK is off, and the server listens
LoadIndex ==
    /\ phase \in {"start", "bootstrapped"}
    /\ MOCK' = mockOf(env)
    /\ OpenAI' \in (IF mockOf(env) THEN {FALSE} ELSE BOOLEAN)
    /\ phase' = "listening"
    /\ UNCHANGED <<judgeReq, judgeRes, env, secretFile, served>>
    /\ UNCHANGED <<appVars, lastOp, direct, penaltyVars, historyVars>>

\* the outcomes a request can have in this process
OutcomesHere(outcomes) ==
    IF MOCK \/ ~OpenAI THEN {"no_sdk"} ELSE outcomes \ {"no_sdk"}

\* a request reached new OpenAI(...): it passed validation with MOCK off
\* and the SDK loaded
ReachesClient(valid) == valid /\ ~MOCK /\ OpenAI

HandleGenerate ==
    /\ phase = "listening"
    /\ \E description \in ServerDescriptions,
          outcome \in OutcomesHere(GenerateOutcomes) :
          served' = <<[endpoint |-> "generate-image",
                       description |-> description,
                       outcome |-> outcome,
                       client |-> ReachesClient(description # TextEmpty),
                       res |-> generateImage([description |-> description],
                                             MOCK, outcome)]>>
    /\ UNCHANGED <<MOCK, judgeReq, judgeRes, env, secretFile, phase, OpenAI>>
    /\ UNCHANGED <<appVars, lastOp, direct, penaltyVars, historyVars>>

HandleJudge ==
    /\ phase = "listening"
    /\ \E original \in ServerDescriptions, guess \in ServerGuesses,
          outcome \in OutcomesHere(ModelOutcomes) :
          LET req == [originalDescription |-> original, guess |-> guess]
              res == judge(req, MOCK, outcome)
          IN  /\ judgeReq' = <<req>>
              /\ judgeRes' = <<res>>
              /\ served' = <<[endpoint |-> "judge",
                              description |-> original,
                              outcome |-> outcome,
                              client |-> ReachesClient(original # TextEmpty
                                                       /\ guess # TextEmpty),
                              res |-> res]>>
    /\ UNCHANGED <<MOCK, env, secretFile, phase, OpenAI>>
    /\ UNCHANGED <<appVars, lastOp, direct, penaltyVars, historyVars>>

NextServer ==
    \/ Bootstrap
    \/ LoadIndex
    \/ HandleGenerate
    \/ HandleJudge

SpecServer == InitServer /\ [][NextServer]_vars

----------------------------------------------------------------------------
(* The App played against the mock server, which answers every call: the  *)
(* image is a placeholder and every verdict is the heuristic's             *)

\* the target score of a browser that stored none
TargetScoreDefault == 10

TextRedBicycle ==
    <<"a", " ", "r", "e", "d", " ", "b", "i", "c", "y", "c", "l", "e">>

TextBlueBicycle ==
    <<"a", " ", "b", "l", "u", "e", " ", "b", "i", "c", "y", "c", "l", "e">>

ExampleDescriptions == {TextRedBicycle}

ExampleGuesses == {TextBlueBicycle, TextRedBicycle}

InitExample ==
    /\ scores = ZeroScores
    /\ \E start \in Players : current = FreshRound(start)
    /\ started = FALSE
    /\ loading = NULL
    /\ error = NULL
    /\ gameOver = FALSE
    /\ roundOver = FALSE
    /\ roundReason = NULL
    /\ roundPoints = NoPoints
    /\ targetScore = TargetScoreDefault
    /\ calls = <<>>
    /\ lastOp = Op("init", TextEmpty, "done")
    /\ direct = 0
    /\ ServerIdle
    /\ PenaltyIdle
    /\ HistoryIdle

\* api.judge(current.description, guess) answered by the server: post()
\* throws unless the response says ok, and handleGuess goes on from there
JudgeByServer == \E i \in 1..Len(calls) :
    /\ calls[i].kind = "judge"
    /\ LET req == [originalDescription |-> calls[i].render.current.description,
                   guess |-> calls[i].arg]
           res == judge(req, MOCK, "no_sdk")
       IN  /\ judgeReq' = <<req>>
           /\ judgeRes' = <<res>>
           /\ IF res.ok
              THEN judgeResolved(i, res.data.correct)
              ELSE judgeRejected(i)
    /\ UNCHANGED <<direct, MOCK, bootVars, penaltyVars, historyVars>>

NextExample ==
    \/ ClickStart
    \/ ClickPlayAgain
    \/ \E text \in ExampleDescriptions : ClickGenerate(text)
    \/ \E text \in ExampleGuesses : ClickSubmitGuess(text)
    \/ \E ok \in BOOLEAN : ClickGiveUp(ok)
    \/ ClickNextRound
    \/ GenerateOk
    \/ JudgeByServer

SpecExample == InitExample /\ [][NextExample]_vars

----------------------------------------------------------------------------
(* The target-score App without a start screen (src/unnamed/part_005).    *)
(* Its handlers handleDescribe, handleGuess, handleGiveUp and nextRound    *)
(* (lines 64-147) and its forms repeat those of src/src/App.tsx line for   *)
(* line, and its render gating is that of a started App. It differs in     *)
(* three things: the match is under way from the first render, the target  *)
(* is the constant TARGET_SCORE, and resetGame starts the next match.      *)

TARGET_SCORE == 10

InitNoStart ==
    /\ scores = ZeroScores
    /\ \E start \in Players : current = FreshRound(start)
    /\ started = TRUE
    /\ loading = NULL
    /\ error = NULL
    /\ gameOver = FALSE
    /\ roundOver = FALSE
    /\ roundReason = NULL
    /\ roundPoints = NoPoints
    /\ targetScore = TARGET_SCORE
    /\ calls = <<>>
    /\ lastOp = Op("init", TextEmpty, "done")
    /\ direct = 0
    /\ ServerIdle
    /\ PenaltyIdle
    /\ HistoryIdle

\* resetGame of part_005: scores, current, gameOver and error are set
resetGameNoStart ==
    /\ scores' = ZeroScores
    /\ \E start \in Players : current' = FreshRound(start)
    /\ gameOver' = FALSE
    /\ error' = NULL
    /\ lastOp' = Op("resetGame", TextEmpty, "done")
    /\ UNCHANGED <<started, loading, roundOver, roundReason, roundPoints,
                   targetScore, calls>>

\* GameOver: Play Again
ClickPlayAgainNoStart ==
    gameOver /\ resetGameNoStart /\ UNCHANGED <<direct, restVars>>

NextNoStart ==
    \/ \E text \in TypedDescriptions : ClickGenerate(text)
    \/ \E text \in TypedGuesses : ClickSubmitGuess(text)
    \/ \E ok \in BOOLEAN : ClickGiveUp(ok)
    \/ ClickNextRound
    \/ ClickPlayAgainNoStart
    \/ GenerateOk
    \/ GenerateFail
    \/ JudgeOk
    \/ JudgeFail

SpecNoStart == InitNoStart /\ [][NextNoStart]_vars

----------------------------------------------------------------------------
(* The history App (src/unnamed/part_003): the target-score App with a   *)
(* round history and a pause on the last round's summary. Its            *)
(* handleDescribe, nextRound, the part of handleGuess before the await   *)
(* and its forms are those of App; the handlers below are the ones that  *)
(* differ.                                                               *)

\* rounds a match of the history App may finish
MaxRounds == 3

HistoryDescriptions == {TextB, TextBlank}

HistoryGuesses == {TextAB, TextB}

HistoryImages == {"img1"}

\* the entry a handler appends to the history: id is h.length + 1, the round
\* is the current of the handler's render (describerName follows describerId)
LogRound_KeepsId(h, c, reason, attempts) ==
    Append(h, [id |-> 1, describerId |-> c.describerId,
               description |-> c.description, imageUrl |-> c.imageUrl,
               reason |-> reason, attempts |-> attempts])

LogRound(h, c, reason, attempts) ==
    Append(h, [id |-> Len(h) + 1, describerId |-> c.describerId,
               description |-> c.description, imageUrl |-> c.imageUrl,
               reason |-> reason, attempts |-> attempts])

PauseEffect_Never(p, before, after) == p

\* useEffect on [gameOver]: if (gameOver) setPaused(true)
PauseEffect(p, before, after) ==
    IF after # before /\ after THEN TRUE ELSE p

InitHistory ==
    /\ scores = ZeroScores
    /\ \E start \in Players : current = FreshRound(start)
    /\ started = FALSE
    /\ loading = NULL
    /\ error = NULL
    /\ gameOver = FALSE
    /\ paused = FALSE
    /\ roundOver = FALSE
    /\ roundReason = NULL
    /\ roundPoints = NoPoints
    /\ history = <<>>
    /\ targetScore \in TargetScoreMin..MaxTarget
    /\ calls = <<>>
    /\ lastOp = Op("init", TextEmpty, "done")
    /\ direct = 0
    /\ ServerIdle
    /\ PenaltyIdle

\* handleGuess after the await: the call resolved with a verdict
judgeResolvedH(i, correct) ==
    /\ i \in 1..Len(calls)
    /\ calls[i].kind = "judge"
    /\ JudgeValid(calls[i])
    /\ LET call == calls[i]
           attemptsLocal == Append(call.render.current.attempts,
                                   [guess |-> call.arg, correct |-> correct])
           attempts == Append(current.attempts,
                              [guess |-> call.arg, correct |-> correct])
           g == guesser(call.render.current)
           next == AwardPoint(scores, g)
       IN  /\ current' = [current EXCEPT !.attempts = attempts]
           /\ IF correct
              THEN /\ scores' = next
                   /\ gameOver' = WinEffect(
                          IF canWin(next, call.render.targetScore)
                          THEN TRUE ELSE gameOver,
                          next, targetScore)
                   /\ roundPoints' = {<<g, POINTS_PER_CORRECT>>}
                   /\ roundOver' = TRUE
                   /\ roundReason' = "correct"
                   /\ history' = LogRound(history, call.render.current,
                                          "correct", attemptsLocal)
              ELSE \E newAttemptsCount \in
                        {Len(call.render.current.attempts) + 1, Len(attempts)} :
                      IF AttemptsExhausted(newAttemptsCount)
                      THEN /\ roundOver' = TRUE
                           /\ roundReason' = "max_attempts"
                           /\ roundPoints' = NoPoints
                           /\ history' = LogRound(history, call.render.current,
                                                  "max_attempts", attemptsLocal)
                           /\ UNCHANGED <<scores, gameOver>>
                      ELSE UNCHANGED <<scores, gameOver, roundOver,
                                       roundReason, roundPoints, history>>
           /\ lastOp' = Op("judgeResolved", call.arg,
                           IF correct THEN "correct" ELSE "incorrect")
    /\ paused' = PauseEffect(paused, gameOver, gameOver')
    /\ loading' = NULL
    /\ calls' = RemoveAt(calls, i)
    /\ UNCHANGED <<started, error, targetScore>>

handleGiveUpH(ok) ==
    IF ~HasImage(current)
    THEN Refused("handleGiveUp", TextEmpty, "noImage") /\ UNCHANGED historyVars
    ELSE IF Busy
    THEN Refused("handleGiveUp", TextEmpty, "busy") /\ UNCHANGED historyVars
    ELSE IF ~ok
    THEN Refused("handleGiveUp", TextEmpty, "declined") /\ UNCHANGED historyVars
    ELSE /\ roundPoints' = NoPoints
         /\ roundOver' = TRUE
         /\ roundReason' = "give_up"
         /\ history' = LogRound(history, current, "give_up", current.attempts)
         /\ error' = NULL
         /\ lastOp' = Op("handleGiveUp", TextEmpty, "done")
         /\ UNCHANGED <<scores, current, started, loading, gameOver, paused,
                        targetScore, calls>>

startGameH ==
    /\ startGame
    /\ history' = <<>>
    /\ paused' = PauseEffect(paused, gameOver, gameOver')

resetGameH ==
    /\ resetGame
    /\ history' = <<>>
    /\ paused' = PauseEffect(FALSE, gameOver, gameOver')

\* RoundSummary of the paused game: onAction={() => setPaused(false)}
showResults ==
    /\ paused' = FALSE
    /\ lastOp' = Op("showResults", TextEmpty, "done")
    /\ UNCHANGED <<appVars, history>>

\* the screens of the history App that differ from those of App
ShowsPausedSummary == started /\ gameOver /\ paused

ShowsGameOverH == started /\ gameOver /\ ~paused

\* what the history App leaves alone
outsideH == <<direct, serverVars, penaltyVars>>

HClickStart == ShowsStartScreen /\ startGameH /\ UNCHANGED outsideH

HChangeTarget(v) ==
    /\ ShowsStartScreen
    /\ setTargetScore(v)
    /\ paused' = PauseEffect(paused, gameOver, gameOver')
    /\ UNCHANGED <<history, outsideH>>

HClickShowResults == ShowsPausedSummary /\ showResults /\ UNCHANGED outsideH

HClickPlayAgain == ShowsGameOverH /\ resetGameH /\ UNCHANGED outsideH

HClickGiveUp(ok) ==
    /\ ShowsGuessForm
    /\ loading # JudgingLabel
    /\ handleGiveUpH(ok)
    /\ UNCHANGED outsideH

\* RoundSummary of a running game: Next round
HClickNextRound ==
    /\ Len(history) < MaxRounds
    /\ ClickNextRound

HGenerateOk == \E i \in 1..Len(calls), img \in HistoryImages :
    generateResolved(i, img) /\ UNCHANGED <<direct, restVars>>

HJudgeOk == \E i \in 1..Len(calls), correct \in BOOLEAN :
    judgeResolvedH(i, correct) /\ UNCHANGED outsideH

NextHistory ==
    \/ HClickStart
    \/ \E v \in 0..MaxTarget : HChangeTarget(v)
    \/ \E text \in HistoryDescriptions : ClickGenerate(text)
    \/ \E text \in HistoryGuesses : ClickSubmitGuess(text)
    \/ \E ok \in BOOLEAN : HClickGiveUp(ok)
    \/ HClickNextRound
    \/ HClickShowResults
    \/ HClickPlayAgain
    \/ HGenerateOk
    \/ GenerateFail
    \/ HJudgeOk
    \/ JudgeFail

SpecHistory == InitHistory /\ [][NextHistory]_vars

----------------------------------------------------------------------------
(* The penalty App (src/unnamed/part_004): a wrong guess costs the guesser *)
(* 10 points, the game ends on a correct guess or at -100. Its handlers    *)
(* test neither loading nor gameOver, and its buttons stay enabled while a *)
(* call is awaited, so several calls can be outstanding.                   *)

\* calls the penalty App may have outstanding at once
MaxPending == 2

PenaltyDescriptions == {TextB, TextBlank}

PenaltyGuesses == {TextAB, TextBlank}

canEnd_Both(s) == s[1] <= -100 /\ s[2] <= -100

\* s[1] <= -100 || s[2] <= -100
canEnd(s) == s[1] <= -100 \/ s[2] <= -100

POp(name, g, res) == [op |-> name, guesser |-> g, res |-> res]

InitPenalty ==
    /\ AppIdle
    /\ ServerIdle
    /\ HistoryIdle
    /\ pScores = ZeroScores
    /\ \E start \in Players : pCurrent = FreshRound(start)
    /\ pLoading = NULL
    /\ pError = NULL
    /\ pGameOver = FALSE
    /\ pCalls = <<>>
    /\ pLastOp = POp("init", 1, "done")
    /\ pJudged = 0

\* handleDescribe up to its await
handleDescribeP(description) ==
    /\ pError' = NULL
    /\ pLoading' = GeneratingLabel
    /\ pCalls' = Append(pCalls, [kind |-> "generate", arg |-> description,
                                 description |-> pCurrent.description,
                                 guesser |-> guesser(pCurrent)])
    /\ pLastOp' = POp("handleDescribe", guesser(pCurrent), "issued")
    /\ UNCHANGED <<pScores, pCurrent, pGameOver, pJudged>>

\* handleGuess up to its await: guesser and current.description are those
\* of the render the handler belongs to
handleGuessP(guess) ==
    IF ~HasImage(pCurrent)
    THEN /\ pLastOp' = POp("handleGuess", guesser(pCurrent), "noImage")
         /\ UNCHANGED <<pScores, pCurrent, pLoading, pError, pGameOver, pCalls,
                        pJudged>>
    ELSE /\ pError' = NULL
         /\ pLoading' = JudgingLabel
         /\ pCalls' = Append(pCalls, [kind |-> "judge", arg |-> guess,
                                      description |-> pCurrent.description,
                                      guesser |-> guesser(pCurrent)])
         /\ pLastOp' = POp("handleGuess", guesser(pCurrent), "issued")
         /\ UNCHANGED <<pScores, pCurrent, pGameOver, pJudged>>

resetGameP ==
    /\ pScores' = ZeroScores
    /\ \E start \in Players : pCurrent' = FreshRound(start)
    /\ pGameOver' = FALSE
    /\ pError' = NULL
    /\ pLastOp' = POp("resetGame", guesser(pCurrent), "done")
    /\ pJudged' = 0
    /\ UNCHANGED <<pLoading, pCalls>>

\* handleDescribe after its await resolved
generateResolvedP(i, imageUrl) ==
    /\ i \in 1..Len(pCalls)
    /\ pCalls[i].kind = "generate"
    /\ pCalls[i].arg # TextEmpty
    /\ pCurrent' = [pCurrent EXCEPT !.description = pCalls[i].arg,
                                    !.imageUrl = imageUrl]
    /\ pLoading' = NULL
    /\ pCalls' = RemoveAt(pCalls, i)
    /\ pLastOp' = POp("generateResolved", pCalls[i].guesser, "done")
    /\ UNCHANGED <<pScores, pError, pGameOver, pJudged>>

\* handleDescribe after its await threw
generateRejectedP(i) ==
    /\ i \in 1..Len(pCalls)
    /\ pCalls[i].kind = "generate"
    /\ pError' = FailedToGenerate
    /\ pLoading' = NULL
    /\ pCalls' = RemoveAt(pCalls, i)
    /\ pLastOp' = POp("generateRejected", pCalls[i].guesser, "failed")
    /\ UNCHANGED <<pScores, pCurrent, pGameOver, pJudged>>

Penalize_Describer(s, g) == [s EXCEPT ![Other(g)] = s[Other(g)] - 10]

\* { ...s, [guesser.id]: s[guesser.id] - 10 }
Penalize(s, g) == [s EXCEPT ![g] = s[g] - 10]

\* handleGuess after its await resolved
judgeResolvedP(i, correct) ==
    /\ i \in 1..Len(pCalls)
    /\ pCalls[i].kind = "judge"
    /\ pCalls[i].description # TextEmpty /\ pCalls[i].arg # TextEmpty
    /\ LET call == pCalls[i]
           g == call.guesser
           attempts == Append(pCurrent.attempts,
                              [guess |-> call.arg, correct |-> correct])
           next == Penalize(pScores, g)
       IN  IF correct
           THEN /\ pCurrent' = [pCurrent EXCEPT !.attempts = attempts]
                /\ pGameOver' = TRUE
                /\ pScores' = pScores
                /\ pLastOp' = POp("judgeResolved", g, "correct")
           ELSE /\ pScores' = next
                /\ pGameOver' = (IF canEnd(next) THEN TRUE ELSE pGameOver)
                /\ pCurrent' = (IF Len(attempts) >= 3
                                THEN FreshRound(g)
                                ELSE [pCurrent EXCEPT !.attempts = attempts])
                /\ pLastOp' = POp("judgeResolved", g, "incorrect")
    /\ pLoading' = NULL
    /\ pCalls' = RemoveAt(pCalls, i)
    /\ pJudged' = pJudged + 1
    /\ UNCHANGED pError

\* handleGuess after its await threw
judgeRejectedP(i) ==
    /\ i \in 1..Len(pCalls)
    /\ pCalls[i].kind = "judge"
    /\ pError' = FailedToJudge
    /\ pLoading' = NULL
    /\ pCalls' = RemoveAt(pCalls, i)
    /\ pLastOp' = POp("judgeRejected", pCalls[i].guesser, "failed")
    /\ UNCHANGED <<pScores, pCurrent, pGameOver, pJudged>>

\* what the target-score App and the server hold
appSide == <<appVars, lastOp, direct, serverVars, historyVars>>

\* a form whose button is disabled leaves everything as it is
DisabledP ==
    /\ pLastOp' = POp("disabled", guesser(pCurrent), "disabled")
    /\ UNCHANGED <<pScores, pCurrent, pLoading, pError, pGameOver, pCalls,
                   pJudged>>

\* DescribeForm: rendered while the game runs and the round has no image
PClickGenerate(text) ==
    /\ ~pGameOver /\ ~HasImage(pCurrent)
    /\ Len(pCalls) < MaxPending
    /\ IF trim(text) # TextEmpty THEN handleDescribeP(trim(text)) ELSE DisabledP
    /\ UNCHANGED appSide

\* GuessForm: rendered while the game runs and the round has an image
PClickSubmitGuess(text) ==
    /\ ~pGameOver /\ HasImage(pCurrent)
    /\ Len(pCalls) < MaxPending
    /\ IF trim(text) # TextEmpty THEN handleGuessP(trim(text)) ELSE DisabledP
    /\ UNCHANGED appSide

\* GameOver: Play Again
PClickPlayAgain == pGameOver /\ resetGameP /\ UNCHANGED appSide

PGenerateOk == \E i \in 1..Len(pCalls), img \in ImageRefs :
    generateResolvedP(i, img) /\ UNCHANGED appSide

PGenerateFail == \E i \in 1..Len(pCalls) : generateRejectedP(i) /\ UNCHANGED appSide

PJudgeOk == \E i \in 1..Len(pCalls), correct \in BOOLEAN :
    judgeResolvedP(i, correct) /\ UNCHANGED appSide

PJudgeFail == \E i \in 1..Len(pCalls) : judgeRejectedP(i) /\ UNCHANGED appSide

NextPenalty ==
    \/ \E text \in PenaltyDescriptions : PClickGenerate(text)
    \/ \E text \in PenaltyGuesses : PClickSubmitGuess(text)
    \/ PClickPlayAgain
    \/ PGenerateOk
    \/ PGenerateFail
    \/ PJudgeOk
    \/ PJudgeFail

SpecPenalty == InitPenalty /\ [][NextPenalty]_vars

----------------------------------------------------------------------------
(* GameOver component *)

GameOverWinner_Flipped(s) == IF s[1] > s[2] THEN 2 ELSE 1

\* scores[1] >= scores[2] ? p1.name : p2.name
GameOverWinner(s) == IF s[1] >= s[2] THEN 1 ELSE 2

----------------------------------------------------------------------------
(* Vocabulary of the claims *)

\* the round outcome: Pending, or the reason the round ended
Outcome == IF roundOver THEN roundReason ELSE "pending"

ReachedTarget(p) == scores[p] >= targetScore

\* a step taken inside one match: the match was started and stays started
InMatchStep == started /\ started'

\* a lower-cased word list: the maximal runs of non-space characters
RECURSIVE LowerWords(_, _)
LowerWords(s, word) ==
    IF s = <<>>
    THEN IF word = <<>> THEN <<>> ELSE <<word>>
    ELSE IF IsSpace(Head(s))
         THEN (IF word = <<>> THEN <<>> ELSE <<word>>) \o LowerWords(Tail(s), <<>>)
         ELSE LowerWords(Tail(s), Append(word, ToLowerChar(Head(s))))

\* equal after trimming, collapsing whitespace runs and lower-casing
SameNormalized(a, b) == LowerWords(a, <<>>) = LowerWords(b, <<>>)

\* the judge answered the request with a verdict
Judged == judgeReq # <<>> /\ judgeRes # <<>> /\ Head(judgeRes).ok

\* the verdict came from the heuristic, not from the chat model
JudgedByHeuristic ==
    Judged /\ Head(judgeRes).data.rationale[1] \in
                  {"overlap_words", "fallback_overlap_words"}

IsAlnumAt(t, i) == ToLowerChar(t[i]) \in LowerAlnum

\* the lower-cased maximal alphanumeric runs of t, as a set
TokenRuns(t) ==
    {toLowerCase(SubSeq(t, i, j)) : <<i, j>> \in
        {r \in (1..Len(t)) \X (1..Len(t)) :
            /\ r[1] <= r[2]
            /\ \A k \in r[1]..r[2] : IsAlnumAt(t, k)
            /\ (r[1] = 1 \/ ~IsAlnumAt(t, r[1] - 1))
            /\ (r[2] = Len(t) \/ ~IsAlnumAt(t, r[2] + 1))}}

\* t reduced to its lower-case alphanumeric tokens, in order: every other
\* character counts as spacing
TokenForm(t) ==
    trim(collapseSpaces([i \in 1..Len(t) |->
            IF IsAlnumAt(t, i) THEN ToLowerChar(t[i]) ELSE " "]))

Shared(a, b) == Cardinality(TokenRuns(a) \cap TokenRuns(b))

Joint(a, b) == Cardinality(TokenRuns(a) \cup TokenRuns(b))

\* the first round of the example: target score 10, nobody has scored,
\* player 1 described "a red bicycle", the image is there and player 2 made
\* the attempts given
ExampleRound(attempts) ==
    /\ started /\ ~gameOver
    /\ targetScore = 10
    /\ scores[1] = 0 /\ scores[2] = 0
    /\ current.describerId = 1
    /\ current.description = TextRedBicycle
    /\ HasImage(current)
    /\ current.attempts = attempts
    /\ ~roundOver

\* the example after its second guess
ExampleAfterRed ==
    /\ started /\ ~gameOver
    /\ targetScore = 10
    /\ scores[1] = 0 /\ scores[2] = 1
    /\ current.describerId = 1
    /\ current.attempts = <<[guess |-> TextBlueBicycle, correct |-> FALSE],
                            [guess |-> TextRedBicycle, correct |-> TRUE]>>
    /\ Outcome = "correct"

\* the environment holds a key that is not empty
KeyPresent == env.OPENAI_API_KEY # NULL /\ env.OPENAI_API_KEY # ""

\* the request handled last was answered without any model: a placeholder
\* image of model 'mock', or the heuristic's verdict
AnsweredByMock ==
    /\ served # <<>>
    /\ ~Head(served).client
    /\ Head(served).res.ok =>
          IF Head(served).endpoint = "judge"
          THEN Head(served).res.data.rationale[1] = "overlap_words"
          ELSE Head(served).res.data.model = "mock"

----------------------------------------------------------------------------
(* Claims *)

\* C1: in every reachable state of the rendered App the current round holds
\* at most 3 attempts, whatever guesses are submitted and whatever the
\* verdicts are.
C1_AttemptCap == Len(current.attempts) <= MaxAttempts

\* C1 witness: a round that used all three attempts.
C1_Witness ==
    /\ Len(current.attempts) = MaxAttempts
    /\ roundOver
    /\ roundReason = "max_attempts"

\* C2 (as claimed): once the round is over, a later handleGuess or
\* handleGiveUp, and the continuation of a guess submitted after the end,
\* change neither attempts, outcome, round points nor scores, and a guess
\* submitted after the end issues no judgment call.
C2_TerminalFrozen ==
    [][(roundOver /\ lastOp'.op \in {"handleGuess", "handleGiveUp",
                                     "judgeResolved", "judgeRejected"})
        => /\ current'.attempts = current.attempts
           /\ roundOver' = roundOver
           /\ roundReason' = roundReason
           /\ roundPoints' = roundPoints
           /\ scores' = scores
           /\ Len(calls') <= Len(calls)]_vars

\* C3: inside a match the guesser's score rises by exactly 1 in the step in
\* which the outcome becomes Correct and is unchanged in every other step
\* (incorrect guess, max attempts, give up, next round); the describer's
\* score is unchanged in every step.
C3_ScoreRule ==
    [][InMatchStep =>
        LET g == Other(current.describerId)
            d == current.describerId
            becomesCorrect == Outcome # "correct" /\ Outcome' = "correct"
        IN  /\ scores'[d] = scores[d]
            /\ scores'[g] = scores[g] + (IF becomesCorrect THEN 1 ELSE 0)]_vars

\* C3 witness: a correct verdict has just ended the round and the guesser
\* holds a point.
C3_Witness ==
    /\ lastOp.op = "judgeResolved"
    /\ Outcome = "correct"
    /\ scores[Other(current.describerId)] >= 1
    /\ scores[current.describerId] = 0

\* C4: in a started match gameOver is true exactly when some score has
\* reached targetScore: never earlier, and at once when it is reached (no
\* guess is awaited or accepted in between).
C4_WinCondition ==
    started => (gameOver <=> \E p \in Players : ReachedTarget(p))

\* C4 witness: a match decided by a correct verdict, after a round that
\* did not decide it.
C4_Witness ==
    /\ started
    /\ gameOver
    /\ targetScore = 2
    /\ lastOp.op = "judgeResolved"

\* C5: when the match is over the player GameOver names as winner has
\* reached targetScore and the other player has a strictly smaller score
\* below targetScore.
C5_Winner ==
    (started /\ gameOver) =>
        LET w == GameOverWinner(scores)
        IN  /\ ReachedTarget(w)
            /\ ~ReachedTarget(Other(w))
            /\ scores[Other(w)] < scores[w]

\* C5 witness: player 2 wins a match to 2 in which player 1 also scored.
C5_Witness ==
    /\ started
    /\ gameOver
    /\ scores[2] = 2
    /\ scores[1] = 1

\* C6: inside a match a nextRound makes the previous guesser the describer,
\* and no other step changes the describer.
C6_TurnAlternation ==
    [][InMatchStep =>
        current'.describerId =
            IF lastOp'.op = "nextRound"
            THEN Other(current.describerId)
            ELSE current.describerId]_vars

\* C6 witness: a round opened by nextRound after a round that was won.
C6_Witness ==
    /\ lastOp.op = "nextRound"
    /\ scores # ZeroScores
    /\ current.attempts = <<>>

\* the round and the scores are those of the render that issued the call
AsInRender(r) ==
    /\ current' = r.current
    /\ scores' = r.scores
    /\ roundOver' = r.roundOver
    /\ roundReason' = r.roundReason
    /\ roundPoints' = r.roundPoints

RoundAndScoresUnchanged ==
    UNCHANGED <<current, scores, roundOver, roundReason, roundPoints, gameOver>>

\* C7: a handleGuess whose text equals the latest attempt's text after
\* trimming, collapsing whitespace runs and lower-casing changes nothing: no
\* judgment call is issued, and attempts, outcome, scores, busy flag and
\* error stay as they are.
C7_DuplicateIgnored ==
    [][(/\ lastOp'.op = "handleGuess"
        /\ current.attempts # <<>>
        /\ SameNormalized(current.attempts[Len(current.attempts)].guess,
                          lastOp'.arg))
        => (UNCHANGED appVars /\ lastOp'.res # "issued")]_vars

\* C7 witness: a guess refused as a duplicate although its text differs
\* from the latest attempt's text as typed.
C7_Witness ==
    /\ lastOp.op = "handleGuess"
    /\ lastOp.res = "duplicate"
    /\ lastOp.arg # lastGuessOf(current)

C8_BusyInv ==
    /\ Len(calls) <= 1
    /\ (loading # NULL) <=> (calls # <<>>)
    /\ calls # <<>> =>
          loading = (IF calls[1].kind = "generate"
                     THEN GeneratingLabel ELSE JudgingLabel)

\* C8: at most one gateway call is outstanding and loading is non-null
\* exactly while one is; a handleDescribe, handleGuess or handleGiveUp made
\* while loading is non-null changes nothing and issues no call; the step
\* that completes a call, resolved or rejected, clears loading.
C8_BusyFlag ==
    /\ []C8_BusyInv
    /\ [][(loading # NULL /\ lastOp'.op \in {"handleDescribe", "handleGuess",
                                             "handleGiveUp"})
           => UNCHANGED appVars]_vars
    /\ [][(lastOp'.op \in {"generateResolved", "generateRejected",
                           "judgeResolved", "judgeRejected"})
           => (loading # NULL /\ loading' = NULL /\ calls' = <<>>)]_vars

\* C8 witness: a handler was refused because a call was outstanding.
C8_Witness ==
    /\ lastOp.res = "busy"
    /\ loading # NULL
    /\ Len(calls) = 1

\* C9: the step in which a judgment call fails records no attempt and
\* leaves the round and both scores as they were when the guess was
\* submitted; it sets an error and clears loading; in the state it leaves,
\* the same guess is accepted again, and submitting it issues a new
\* judgment call for that guess.
C9_JudgmentFailure ==
    /\ [][(lastOp'.op = "judgeRejected")
           => /\ RoundAndScoresUnchanged
              /\ AsInRender(calls[1].render)
              /\ error' # NULL
              /\ loading' = NULL]_vars
    /\ [](lastOp.op = "judgeRejected"
           => /\ ShowsGuessForm
              /\ canSubmit(lastOp.arg)
              /\ GuessAccepted(lastOp.arg)
              /\ ~(current.attempts # <<>> /\
                   SameNormalized(lastGuessOf(current), lastOp.arg)))
    /\ [][(/\ lastOp.op = "judgeRejected"
           /\ lastOp'.op = "handleGuess"
           /\ lastOp'.arg = lastOp.arg)
           => /\ lastOp'.res = "issued"
              /\ Len(calls') = 1
              /\ calls'[1].kind = "judge"
              /\ calls'[1].arg = lastOp.arg
              /\ calls'[1].render.current = current]_vars

\* C9 witness: a judgment call failed in a round that already holds one
\* attempt; the error is shown and nothing awaits.
C9_Witness ==
    /\ lastOp.op = "judgeRejected"
    /\ error = FailedToJudge
    /\ loading = NULL
    /\ Len(current.attempts) = 1

\* C10: the step in which a generation call fails leaves the round with an
\* empty description and no image and the scores unchanged, sets an error
\* and clears loading; in the state it leaves, any non-blank description
\* (the same or another) is accepted and issues a new generation call; the
\* step in which a generation call succeeds stores the submitted
\* description and the returned image reference, leaves the outcome Pending
\* and changes no score.
C10_Generation ==
    /\ [][(lastOp'.op = "generateRejected")
           => /\ RoundAndScoresUnchanged
              /\ AsInRender(calls[1].render)
              /\ current'.description = TextEmpty
              /\ current'.imageUrl = NULL
              /\ error' # NULL
              /\ loading' = NULL]_vars
    /\ [](lastOp.op = "generateRejected"
           => ShowsDescribeForm /\ loading # GeneratingLabel /\ ~Busy)
    /\ [][(lastOp.op = "generateRejected" /\ lastOp'.op = "handleDescribe")
           => /\ lastOp'.res = "issued"
              /\ Len(calls') = 1
              /\ calls'[1].kind = "generate"
              /\ calls'[1].arg = lastOp'.arg]_vars
    /\ [][(lastOp'.op = "generateResolved")
           => /\ current'.description = calls[1].arg
              /\ current'.description # TextEmpty
              /\ current'.imageUrl = lastOp'.res
              /\ current'.imageUrl \in ImageRefs
              /\ current'.attempts = <<>>
              /\ current'.describerId = current.describerId
              /\ Outcome' = "pending"
              /\ roundPoints' = NoPoints
              /\ scores' = scores
              /\ gameOver' = gameOver]_vars

\* C10 witness: a generation call failed: the round is still empty, the
\* error is shown and nothing awaits.
C10_Witness ==
    /\ lastOp.op = "generateRejected"
    /\ error = FailedToGenerate
    /\ loading = NULL
    /\ current.description = TextEmpty
    /\ ~HasImage(current)

\* the round is terminal and the match goes on: the state nextRound is for
CanAdvance == started /\ ~gameOver /\ HasImage(current) /\ roundOver

\* a text of whitespace only, the empty text included
IsBlank(t) == \A i \in 1..Len(t) : t[i] = " "

\* C11: a verdict of incorrect appends one attempt and changes no score;
\* when it is the third attempt of the round the outcome becomes
\* MaxAttemptsReached, and when it is the first or second the outcome stays
\* Pending and the guess form accepts another guess.
C11_MaxAttempts ==
    /\ [][(lastOp'.op = "judgeResolved" /\ lastOp'.res = "incorrect")
           => LET n == Len(current'.attempts)
              IN  /\ n = Len(current.attempts) + 1
                  /\ current'.attempts[n].correct = FALSE
                  /\ scores' = scores
                  /\ IF n = 3
                     THEN Outcome' = "max_attempts"
                     ELSE n < 3 /\ Outcome' = "pending"]_vars
    /\ []((/\ lastOp.op = "judgeResolved"
           /\ lastOp.res = "incorrect"
           /\ Len(current.attempts) < 3)
           => /\ ShowsGuessForm
              /\ \E text \in TypedGuesses :
                    canSubmit(text) /\ GuessAccepted(trim(text)))

\* C11 witness: the third incorrect verdict has just ended the round and
\* nobody holds a point.
C11_Witness ==
    /\ lastOp.op = "judgeResolved"
    /\ lastOp.res = "incorrect"
    /\ Len(current.attempts) = 3
    /\ Outcome = "max_attempts"
    /\ scores = ZeroScores

\* C12 (as claimed): a handleGiveUp takes effect only on a round with an
\* image, outcome Pending and no call outstanding, and only when confirmed:
\* then the outcome becomes GaveUp and scores, attempts, description, image
\* and describer stay; in every other case nothing changes.
C12_GiveUp ==
    [][(lastOp'.op = "handleGiveUp")
        => IF /\ HasImage(current)
              /\ ~roundOver
              /\ loading = NULL
              /\ lastOp'.res # "declined"
           THEN /\ Outcome' = "give_up"
                /\ UNCHANGED <<scores, current, gameOver, started>>
           ELSE UNCHANGED appVars]_vars

\* C13 (as claimed): a nextRound invoked in a state other than a started
\* match that is not over with a terminal round leaves the describer, the
\* round, the outcome and the scores unchanged.
C13_AdvanceRefused ==
    [][(lastOp'.op = "nextRound" /\ ~CanAdvance)
        => UNCHANGED <<current, scores, roundOver, roundReason,
                       roundPoints>>]_vars

\* C14: once the match is over no call is outstanding, and every step
\* other than resetGame and startGame leaves scores, the round (describer,
\* description, image, attempts), its outcome and gameOver unchanged.
C14_FrozenWhenOver ==
    /\ []((started /\ gameOver) => (calls = <<>> /\ loading = NULL))
    /\ [][(started /\ gameOver /\ lastOp'.op \notin {"resetGame", "startGame"})
           => UNCHANGED <<scores, current, roundOver, roundReason,
                          roundPoints, gameOver>>]_vars

\* C14 witness: the match has just been decided by a correct verdict.
C14_Witness ==
    /\ started
    /\ gameOver
    /\ lastOp.op = "judgeResolved"
    /\ lastOp.res = "correct"
    /\ roundOver

\* C15: a description of whitespace only (or empty) never reaches the
\* generation gateway: submitting it changes nothing (loading stays null,
\* the round stays as it is) and no generation call carries a blank text.
C15_BlankDescription ==
    /\ [](\A i \in 1..Len(calls) :
             calls[i].kind = "generate" => ~IsBlank(calls[i].arg))
    /\ [][(lastOp'.op \in {"DescribeForm", "handleDescribe"}
           /\ IsBlank(lastOp'.arg))
           => UNCHANGED appVars]_vars
    /\ [](lastOp.op = "DescribeForm" => (IsBlank(lastOp.arg) /\ calls = <<>>))

\* C15 witness: a whitespace-only description was submitted and nothing
\* awaits.
C15_Witness ==
    /\ lastOp.op = "DescribeForm"
    /\ lastOp.arg = TextBlank
    /\ loading = NULL
    /\ calls = <<>>
    /\ ~HasImage(current)

\* C16: startGame yields scores 0 for both, a started match that is not
\* over and a fresh first round (empty description, no image, no attempts,
\* outcome Pending, no round points) described by player 1 or 2; from every
\* state where the match is not started either player can come out as
\* describer; resetGame yields a not-started match with scores 0 and
\* gameOver false.
C16_MatchStart ==
    /\ [][(lastOp'.op = "startGame")
           => /\ scores' = [p \in {1, 2} |-> 0]
              /\ started'
              /\ ~gameOver'
              /\ current'.describerId \in {1, 2}
              /\ current'.description = <<>>
              /\ current'.imageUrl = NULL
              /\ current'.attempts = <<>>
              /\ Outcome' = "pending"
              /\ roundReason' = NULL
              /\ roundPoints' = NoPoints]_vars
    /\ [][(lastOp'.op = "resetGame")
           => /\ ~started'
              /\ scores' = [p \in {1, 2} |-> 0]
              /\ ~gameOver']_vars
    /\ [](~started =>
            \A p \in Players : ENABLED (ClickStart /\ current'.describerId = p))

\* C16 witness: a match started with player 2 describing.
C16_Witness ==
    /\ lastOp.op = "startGame"
    /\ started
    /\ current.describerId = 2
    /\ scores = ZeroScores

\* C18: whenever the heuristic judge answers a pair (original, guess), its
\* verdict is correct if and only if the two token sets share at least 3
\* tokens or the two texts, reduced to their lower-case alphanumeric tokens,
\* are equal.
C18_HeuristicVerdict ==
    JudgedByHeuristic =>
        LET req == Head(judgeReq)
        IN  Head(judgeRes).data.correct <=>
                \/ Shared(req.originalDescription, req.guess) >= 3
                \/ TokenForm(req.originalDescription) = TokenForm(req.guess)

\* C18 (amended): the verdict of the heuristic judge is correct if and only
\* if the two token sets share at least 3 tokens or the trimmed, lower-cased
\* guess equals the trimmed, lower-cased original, character by character.
C18_HeuristicVerdictExact ==
    JudgedByHeuristic =>
        LET req == Head(judgeReq)
        IN  Head(judgeRes).data.correct <=>
                \/ Shared(req.originalDescription, req.guess) >= 3
                \/ toLowerCase(trim(req.guess)) =
                       toLowerCase(trim(req.originalDescription))

\* the heuristic called a guess correct that shares fewer than 3 tokens with
\* the original and differs from it in case or outer spacing only
C18_Witness ==
    /\ JudgedByHeuristic
    /\ Head(judgeRes).data.correct
    /\ Head(judgeReq).guess # Head(judgeReq).originalDescription
    /\ Shared(Head(judgeReq).originalDescription, Head(judgeReq).guess) < 3

\* C19: whenever the judge answers a pair (original, guess), closeness is
\* |A intersect B| / |A union B| over the two token sets, the denominator
\* being 1 when both are empty; the numerator never exceeds the
\* denominator, the swapped pair has the same closeness, and closeness is 1
\* exactly when the token sets are equal and not empty.
C19_Closeness ==
    Judged =>
        LET req == Head(judgeReq)
            a == req.originalDescription
            b == req.guess
            closeness == Head(judgeRes).data.closeness
            swapped == judge([originalDescription |-> b, guess |-> a],
                             MOCK, "no_sdk").data.closeness
        IN  /\ closeness[1] = Shared(a, b)
            /\ closeness[2] = (IF Joint(a, b) = 0 THEN 1 ELSE Joint(a, b))
            /\ 0 <= closeness[1] /\ closeness[1] <= closeness[2]
            /\ swapped[1] * closeness[2] = closeness[1] * swapped[2]
            /\ (closeness[1] = closeness[2]) <=>
                   (TokenRuns(a) = TokenRuns(b) /\ TokenRuns(a) # {})

\* the judge answered a pair of different texts that have the same two
\* tokens: closeness 2/2
C19_Witness ==
    /\ Judged
    /\ Head(judgeReq).originalDescription # Head(judgeReq).guess
    /\ Head(judgeRes).data.closeness = <<2, 2>>

\* C17: with target score 10, player 1 describing "a red bicycle" and an
\* image returned, player 2's first guess "a blue bicycle" is judged
\* incorrect with closeness 1/2, is the round's only attempt and leaves the
\* round pending; the next guess "a red bicycle" is judged correct, the
\* round's outcome becomes correct, the scores become 0 for player 1 and 1
\* for player 2, the match is not over, and nextRound then makes player 2
\* the describer.
C17_Example ==
    /\ [][(/\ ExampleRound(<<>>)
           /\ lastOp'.op \in {"judgeResolved", "judgeRejected"}
           /\ lastOp'.arg = TextBlueBicycle)
          => (/\ lastOp'.res = "incorrect"
              /\ Head(judgeRes').data.closeness[1] * 2 =
                     Head(judgeRes').data.closeness[2]
              /\ ExampleRound(<<[guess |-> TextBlueBicycle,
                                 correct |-> FALSE]>>)'
              /\ Outcome' = "pending"
              /\ ~gameOver')]_vars
    /\ [][(/\ ExampleRound(<<[guess |-> TextBlueBicycle, correct |-> FALSE]>>)
           /\ lastOp'.op \in {"judgeResolved", "judgeRejected"}
           /\ lastOp'.arg = TextRedBicycle)
          => (/\ lastOp'.res = "correct"
              /\ ExampleAfterRed')]_vars
    /\ [][(ExampleAfterRed /\ lastOp'.op = "nextRound")
          => (/\ current'.describerId = 2
              /\ scores' = scores
              /\ ~gameOver')]_vars

\* the scenario was played up to the correct guess
C17_Witness ==
    /\ ExampleAfterRed
    /\ lastOp = Op("judgeResolved", TextRedBicycle, "correct")
    /\ current.imageUrl = "img1"

C21_MockByDefault ==
    /\ []((served # <<>> /\ (~KeyPresent \/ env.MOCK_OPENAI = "1"))
            => AnsweredByMock)
    /\ []((served # <<>> /\ Head(served).client)
            => (KeyPresent /\ env.MOCK_OPENAI # "1"))
    /\ [][(env'.MOCK_OPENAI # env.MOCK_OPENAI)
            => (/\ env.MOCK_OPENAI \in {NULL, ""}
                /\ env'.MOCK_OPENAI = "0"
                /\ secretFile = "key"
                /\ env'.OPENAI_API_KEY = "sk-file")]_vars
    /\ [][(env.MOCK_OPENAI = "1") => (env'.MOCK_OPENAI = "1")]_vars

\* started with MOCK_OPENAI = '1' and a key in secretkey.txt, the server
\* loaded the key and still answered a judge request with the heuristic
C21_Witness ==
    /\ env = [MOCK_OPENAI |-> "1", OPENAI_API_KEY |-> "sk-file"]
    /\ served # <<>>
    /\ Head(served).endpoint = "judge"
    /\ Head(served).res.ok
    /\ AnsweredByMock

\* C22: a verdict of correct ends the round as Correct on whichever attempt
\* it comes, the third included: it appends one attempt, the outcome is
\* correct and never max_attempts, the guesser gains exactly 1 point and the
\* describer none, and the round points name the guesser.
C22_CorrectEndsRound ==
    [][(lastOp'.op = "judgeResolved" /\ lastOp'.res = "correct")
        => LET n == Len(current'.attempts)
               g == Other(current.describerId)
           IN  /\ n = Len(current.attempts) + 1
               /\ n <= 3
               /\ current'.attempts[n].correct = TRUE
               /\ Outcome' = "correct"
               /\ scores'[g] = scores[g] + 1
               /\ scores'[current.describerId] = scores[current.describerId]
               /\ roundPoints' = {<<g, 1>>}]_vars

\* the third attempt of a round was judged correct
C22_Witness ==
    /\ lastOp.op = "judgeResolved"
    /\ lastOp.res = "correct"
    /\ Len(current.attempts) = 3
    /\ ~current.attempts[1].correct /\ ~current.attempts[2].correct
    /\ Outcome = "correct"
    /\ scores[Other(current.describerId)] >= 1

\* the text repeats an attempt of the round made before the latest one,
\* and differs from the latest one, after normalization
RepeatsEarlierOnly(c, text) ==
    /\ Len(c.attempts) >= 2
    /\ \E k \in 1..(Len(c.attempts) - 1) :
          SameNormalized(c.attempts[k].guess, text)
    /\ ~SameNormalized(c.attempts[Len(c.attempts)].guess, text)

\* C23: a guess whose normalized text equals an earlier attempt of the
\* round but not the latest one is accepted by the guess form and by
\* handleGuess, is sent to the judge, and on a verdict is appended as a new
\* attempt, which as the third incorrect one ends the round.
C23_OnlyLatestCompared ==
    /\ []((ShowsGuessForm /\ loading = NULL)
            => \A text \in TypedGuesses :
                  RepeatsEarlierOnly(current, text)
                      => (canSubmit(text) /\ GuessAccepted(trim(text))))
    /\ [][(lastOp'.op = "handleGuess" /\ loading = NULL
           /\ RepeatsEarlierOnly(current, lastOp'.arg))
          => (/\ lastOp'.res = "issued"
              /\ Len(calls') = Len(calls) + 1
              /\ calls'[Len(calls')].kind = "judge"
              /\ calls'[Len(calls')].arg = lastOp'.arg)]_vars
    /\ [][(lastOp'.op = "judgeResolved"
           /\ RepeatsEarlierOnly(current, lastOp'.arg))
          => (/\ current'.attempts =
                    Append(current.attempts,
                           [guess |-> lastOp'.arg,
                            correct |-> (lastOp'.res = "correct")])
              /\ (lastOp'.res = "incorrect" /\ Len(current'.attempts) = 3)
                    => Outcome' = "max_attempts")]_vars

\* the third attempt repeated the first one, after a different second one,
\* and ended the round
C23_Witness ==
    /\ Len(current.attempts) = 3
    /\ SameNormalized(current.attempts[1].guess, current.attempts[3].guess)
    /\ ~SameNormalized(current.attempts[2].guess, current.attempts[3].guess)
    /\ lastOp.op = "judgeResolved"
    /\ Outcome = "max_attempts"

\* C24: after nextRound the round is fresh: its description is empty, it
\* has no image and no attempts, the outcome is pending and the round
\* points are cleared; the scores, the target score and the started and
\* gameOver flags are those of before.
C24_FreshRound ==
    [][(lastOp'.op = "nextRound")
        => (/\ current'.description = <<>>
            /\ current'.imageUrl = NULL
            /\ current'.attempts = <<>>
            /\ Outcome' = "pending"
            /\ roundReason' = NULL
            /\ roundPoints' = {}
            /\ scores' = scores
            /\ targetScore' = targetScore
            /\ started' = started
            /\ gameOver' = gameOver)]_vars

\* nextRound has just replaced a round that was won: the point is kept,
\* the round is empty
C24_Witness ==
    /\ lastOp.op = "nextRound"
    /\ started /\ ~gameOver
    /\ \E p \in Players : scores[p] = 1
    /\ current.attempts = <<>>
    /\ current.imageUrl = NULL
    /\ roundPoints = {}

\* C25 (as claimed): once the round has an image, no step but nextRound,
\* startGame and resetGame changes its description or its image, a further
\* handleDescribe included.
C25_DescriptionImmutable ==
    [][(HasImage(current)
        /\ lastOp'.op \notin {"nextRound", "startGame", "resetGame"})
        => (/\ current'.description = current.description
            /\ current'.imageUrl = current.imageUrl)]_vars

\* the round holds an attempt or a terminal outcome only together with an
\* image and a description
JudgedOnlyWithImage ==
    (current.attempts # <<>> \/ roundOver)
        => (current.imageUrl # NULL /\ current.description # <<>>)

\* a handleGuess on a round without an image issues no call and changes
\* nothing
GuessWithoutImageRefused ==
    [][(lastOp'.op = "handleGuess" /\ current.imageUrl = NULL)
        => (UNCHANGED appVars /\ lastOp'.res # "issued")]_vars

\* C26 (as claimed): in every state the App reaches through its rendered
\* controls, a round with attempts or a terminal outcome has an image and a
\* non-empty description; and a handleGuess on a round without an image
\* issues no judgment call and changes nothing.
C26_NoGuessBeforeImage ==
    /\ [](direct = 0 => JudgedOnlyWithImage)
    /\ GuessWithoutImageRefused

\* C27: while a generation or judgment call is outstanding, the round and
\* the scores are those of the render that issued it and the match is in
\* progress; the result of a generation call sets description and image of
\* that round, and the verdict of a judgment call is appended to the
\* attempts of that round, a correct one giving the point to that round's
\* guesser.
C27_AppliedToItsRound ==
    /\ [](\A i \in 1..Len(calls) :
             /\ calls[i].render.current = current
             /\ calls[i].render.scores = scores
             /\ started /\ ~gameOver)
    /\ [][(lastOp'.op = "generateResolved" /\ calls # <<>>)
          => current' = [calls[1].render.current EXCEPT
                            !.description = lastOp'.arg,
                            !.imageUrl = lastOp'.res]]_vars
    /\ [][(lastOp'.op = "judgeResolved" /\ calls # <<>>)
          => LET round == calls[1].render.current
                 verdict == (lastOp'.res = "correct")
             IN  /\ current'.describerId = round.describerId
                 /\ current'.description = round.description
                 /\ current'.imageUrl = round.imageUrl
                 /\ current'.attempts =
                        Append(round.attempts,
                               [guess |-> calls[1].arg, correct |-> verdict])
                 /\ scores'[round.describerId] =
                        calls[1].render.scores[round.describerId]
                 /\ scores'[Other(round.describerId)] =
                        calls[1].render.scores[Other(round.describerId)]
                            + (IF verdict THEN 1 ELSE 0)]_vars

\* the second guess of a round was judged correct: both attempts are in
\* the round and its guesser holds the only point
C27_Witness ==
    /\ lastOp.op = "judgeResolved"
    /\ lastOp.res = "correct"
    /\ Len(current.attempts) = 2
    /\ scores[Other(current.describerId)] = 1
    /\ scores[current.describerId] = 0

\* C28 (as claimed): in the penalty App at most one judgment call is
\* outstanding at any time; a verdict is applied only to a round that has
\* an image, and the player it concerns is the guesser of the current
\* round, so no other player is ever charged.
C28_PenaltyOneCall ==
    /\ [](Cardinality({i \in 1..Len(pCalls) : pCalls[i].kind = "judge"}) <= 1)
    /\ [][(pLastOp'.op = "judgeResolved")
          => (/\ pCurrent.imageUrl # NULL
              /\ pLastOp'.guesser = Other(pCurrent.describerId))]_vars

\* C29: whenever a match is in progress (started, not over) and the
\* current round has no image, the round is fresh: roundOver is false,
\* roundReason and roundPoints are null, and the round has no attempts and
\* an empty description.
C29_ReplacedWholesale ==
    (started /\ ~gameOver /\ current.imageUrl = NULL)
        => (/\ ~roundOver
            /\ roundReason = NULL
            /\ roundPoints = {}
            /\ current.attempts = <<>>
            /\ current.description = <<>>)

\* a match in which each player has won a round is at the start of its
\* third round
C29_Witness ==
    /\ started /\ ~gameOver
    /\ current.imageUrl = NULL
    /\ scores[1] = 1 /\ scores[2] = 1
    /\ lastOp.op = "nextRound"
    /\ ~roundOver

\* C30 (as claimed): in the App without a start screen, resetGame after a
\* finished match leaves scores 0 and gameOver and roundOver false, and as
\* soon as the image of the new match's first round has been generated the
\* guess form is shown and accepts a guess.
C30_PlayAgainStartsPending ==
    /\ [][(gameOver /\ lastOp'.op = "resetGame")
          => (/\ scores' = ZeroScores
              /\ ~gameOver'
              /\ ~roundOver')]_vars
    /\ []((lastOp.op = "generateResolved" /\ current.attempts = <<>>)
            => (/\ ShowsGuessForm
                /\ \E text \in TypedGuesses : canSubmit(text)))

----------------------------------------------------------------------------
(* C31: the correct attempt and the outcome Correct *)

\* positions of the attempts of a round that are marked correct
CorrectAttempts(c) == {i \in 1..Len(c.attempts) : c.attempts[i].correct}

\* the last attempt of the round exists and is marked correct
LastAttemptCorrect(c) ==
    c.attempts # <<>> /\ c.attempts[Len(c.attempts)].correct

\* C31 (as claimed): in every state the App reaches through its rendered
\* controls at most one attempt of the current round is marked correct; if
\* one is, it is the last attempt and the outcome is Correct; and the outcome
\* is Correct only if the last attempt is marked correct.
C31_OneCorrectAttempt ==
    /\ Cardinality(CorrectAttempts(current)) <= 1
    /\ \A i \in CorrectAttempts(current) :
          i = Len(current.attempts) /\ Outcome = "correct"
    /\ Outcome = "correct" => LastAttemptCorrect(current)

----------------------------------------------------------------------------
(* C32: bounds of the scores *)

Total(s) == s[1] + s[2]

\* C32: in every state of a match both scores are integers from 0 to
\* targetScore and their total is at most 2 * targetScore - 1; within a match
\* no score decreases, and the scores change only by the step that ends a
\* round, which raises the total by 1, so that one round adds at most 1: a
\* round that is over stays over until nextRound or startGame replaces it.
C32_ScoreBounds ==
    /\ [](started => (/\ scores \in [Players -> 0..targetScore]
                      /\ Total(scores) <= 2 * targetScore - 1))
    /\ [][InMatchStep
            => (/\ \A p \in Players : scores'[p] >= scores[p]
                /\ scores' # scores
                     => (/\ ~roundOver /\ roundOver'
                         /\ Total(scores') = Total(scores) + 1)
                /\ (roundOver /\ ~roundOver')
                     => lastOp'.op \in {"nextRound", "startGame"})]_vars

\* both players one point short of the target and one of them then wins
C32_Witness ==
    /\ started
    /\ targetScore >= 2
    /\ Total(scores) = 2 * targetScore - 1
    /\ lastOp.op = "judgeResolved"

----------------------------------------------------------------------------
(* C33: the floor of the penalty App *)

\* the players whose score is at or below the floor
AtFloor(s) == {p \in Players : s[p] <= -100}

\* C33 (as claimed): in every state of the penalty App at most one player's
\* score is at or below -100, and no score is below -100.
C33_FloorNotShared ==
    /\ Cardinality(AtFloor(pScores)) <= 1
    /\ \A p \in Players : pScores[p] >= -100

----------------------------------------------------------------------------
(* C34: the automatic flip of the penalty App *)

\* a verdict of incorrect has just been applied
WrongVerdictP == pLastOp'.op = "judgeResolved" /\ pLastOp'.res = "incorrect"

\* the scores are carried over: none is reset, a score changes by the
\* penalty of the guess at most
ScoresKept ==
    \A p \in Players : pScores'[p] \in {pScores[p], pScores[p] - 10}

\* C34 (as claimed): in the penalty App the third incorrect guess of a
\* round replaces the round with a fresh one (empty description, no image,
\* no attempts) whose describer is the guesser of the round that ended, the
\* scores being carried over; a first or second incorrect guess leaves the
\* describer, the image and the description of the round as they are and
\* adds the attempt.
C34_AutoFlip ==
    [][WrongVerdictP
        => IF Len(pCurrent.attempts) >= MaxAttempts - 1
           THEN /\ pCurrent' = FreshRound(guesser(pCurrent))
                /\ ScoresKept
           ELSE /\ pCurrent'.describerId = pCurrent.describerId
                /\ pCurrent'.imageUrl = pCurrent.imageUrl
                /\ pCurrent'.description = pCurrent.description
                /\ Len(pCurrent'.attempts) = Len(pCurrent.attempts) + 1]_vars

----------------------------------------------------------------------------
(* C35: the penalty App ends within 19 verdicts *)

\* C35: in the penalty App, counting the verdicts applied since the game
\* was last reset (or since the App was mounted), the game is over once 19
\* verdicts were applied; every verdict either leaves the game over or costs
\* 10 points in total, and a state with a score at -100 or below is over.
C35_EndsWithin19 ==
    /\ [](pJudged >= 19 => pGameOver)
    /\ [][pLastOp'.op = "judgeResolved"
            => (pGameOver' \/ Total(pScores') = Total(pScores) - 10)]_vars
    /\ []((\E p \in Players : pScores[p] <= -100) => pGameOver)

\* the nineteenth verdict of a game ended it, both players having been at -90
C35_Witness ==
    /\ pJudged = 19
    /\ pGameOver
    /\ pLastOp.op = "judgeResolved"
    /\ Total(pScores) = -190

----------------------------------------------------------------------------
(* C36, C37: the history App *)

\* the round on screen is the same round, with or without a further attempt
SameRoundShown ==
    /\ current'.describerId = current.describerId
    /\ current'.description = current.description
    /\ current'.imageUrl = current.imageUrl

EntryOfRound ==
    [id |-> Len(history) + 1, describerId |-> current'.describerId,
     description |-> current'.description, imageUrl |-> current'.imageUrl,
     reason |-> roundReason', attempts |-> current'.attempts]

\* the step brings the round of a running match to a terminal outcome
RoundEnds == started /\ ~roundOver /\ roundOver'

\* C37: in the history App every entry's id is its position; the step that
\* brings a round to a terminal outcome appends one entry holding that
\* round's outcome and its final attempts; no other step changes the history
\* (a pending round gets no entry) except startGame and resetGame, which
\* leave it empty.
C37_HistoryLog ==
    /\ [](\A k \in 1..Len(history) : history[k].id = k)
    /\ [][RoundEnds => history' = Append(history, EntryOfRound)]_vars
    /\ [][history' # history
            => (RoundEnds \/ lastOp'.op \in {"startGame", "resetGame"})]_vars
    /\ [][lastOp'.op \in {"startGame", "resetGame"} => history' = <<>>]_vars

\* a round won at the first guess, then a round lost after three attempts
C37_Witness ==
    /\ started
    /\ Len(history) = 2
    /\ history[1].reason = "correct"
    /\ history[2].reason = "max_attempts"
    /\ Len(history[2].attempts) = MaxAttempts
    /\ history[2].attempts = current.attempts

----------------------------------------------------------------------------
(* C38: the fallbacks of the server *)

\* the request handled last passed the validation of its endpoint
PassedValidation ==
    IF Head(served).endpoint = "judge"
    THEN Head(judgeReq).originalDescription # <<>> /\ Head(judgeReq).guess # <<>>
    ELSE Head(served).description # <<>>

\* the model calls of the request handled last failed
ModelFailed == Head(served).outcome = "throws"

\* C38 (as claimed): a request that passes validation is answered ok; when
\* every image model fails, generate-image answers ok with the placeholder
\* image of model 'mock-fallback'; when the judging model call fails, judge
\* answers ok with the heuristic's verdict and the closeness; a request that
\* fails validation is answered 400 and reaches no model.
C38_FallbackNeverErrors ==
    served # <<>> =>
        LET res == Head(served).res
        IN  /\ PassedValidation => res.ok
            /\ (PassedValidation /\ ModelFailed
                  /\ Head(served).endpoint = "generate-image")
                 => (res.ok /\ res.data.model = "mock-fallback")
            /\ (PassedValidation /\ ModelFailed
                  /\ Head(served).endpoint = "judge")
                 => LET a == Head(judgeReq).originalDescription
                        b == Head(judgeReq).guess
                    IN  /\ res.ok
                        /\ res.data.correct <=>
                              \/ Shared(a, b) >= 3
                              \/ toLowerCase(trim(b)) = toLowerCase(trim(a))
                        /\ res.data.closeness =
                              <<Shared(a, b),
                                IF Joint(a, b) = 0 THEN 1 ELSE Joint(a, b)>>
            /\ ~PassedValidation
                 => (~res.ok /\ res.status = 400 /\ ~Head(served).client)

====
